---- MODULE Spec2Model ----
(***************************************************************************)
(* Building resolution and geometric derivations of the Street-View        *)
(* analysis app (src/utils.py), the script and session state of the app    *)
(* (src/app.py) and the retry loop of the insight engine (src/vision.py).  *)
(*                                                                         *)
(* Coordinates are whole degrees, a point is <<lon, lat>> as in GeoJSON.   *)
(* A planar distance d (a non-negative real) is carried by its square,     *)
(* which is exact on whole coordinates and keeps the order of distances.   *)
(* distance_meters = d * 111000 is carried as (d * 111000 / 1000)^2, the   *)
(* square of the distance in kilometres, so that every product stays in    *)
(* 32 bits; max_distance is drawn from whole kilometres, given in metres.  *)
(***************************************************************************)
EXTENDS Integers, Sequences, FiniteSets

VARIABLES source, pc, buildings_data, total_buildings, call, result,
          bearing, threads, session, retry

vars == <<source, pc, buildings_data, total_buildings, call, result,
          bearing, threads, session, retry>>

\* the part of the state a specification does not use stays at Idle
Idle == [ pc |-> "idle" ]

(***************************************************************************)
(* Bounds of the model                                                     *)
(***************************************************************************)
\* clicks are drawn from 0..GridMax x 0..GridMax
GridMax == 4
\* a feature collection holds at most MaxFeatures features
MaxFeatures == 3

(***************************************************************************)
(* Program constants                                                       *)
(***************************************************************************)
\* utils.py:80  distance_meters = distance * 111000
MetersPerDegree == 111000

(***************************************************************************)
(* Arithmetic helpers                                                      *)
(***************************************************************************)
Abs(x) == IF x < 0 THEN -x ELSE x

Sq(x) == x * x

SetMin(S) == CHOOSE m \in S : \A x \in S : m <= x

SetMax(S) == CHOOSE m \in S : \A x \in S : x <= m

RECURSIVE Gcd(_, _)
Gcd(a, b) == IF b = 0 THEN Abs(a) ELSE Gcd(b, a % b)

\* a rational number in lowest terms with a positive denominator
Rat(n, d) ==
    LET g == Gcd(Abs(n), Abs(d))
        s == IF d < 0 THEN -1 ELSE 1
    IN  [ n |-> (s * n) \div g, d |-> (s * d) \div g ]

(***************************************************************************)
(* GeoJSON values                                                          *)
(***************************************************************************)
Ring(pts) == [ type |-> "Polygon", coordinates |-> pts ]

\* a feature without a 'geometry' key, with "geometry": null, with a
\* geometry type shapely does not know, and with a ring of two positions
NoGeometry == [ type |-> "absent", coordinates |-> << >> ]

NullGeometry == [ type |-> "null", coordinates |-> << >> ]

UnknownGeometry == [ type |-> "Blob", coordinates |-> << >> ]

ShortRing == Ring(<< <<0, 0>>, <<1, 1>> >>)

SquareA == Ring(<< <<0, 0>>, <<2, 0>>, <<2, 2>>, <<0, 2>>, <<0, 0>> >>)

BlockB == Ring(<< <<0, 0>>, <<4, 0>>, <<4, 3>>, <<0, 3>>, <<0, 0>> >>)

SquareC == Ring(<< <<3, 3>>, <<4, 3>>, <<4, 4>>, <<3, 4>>, <<3, 3>> >>)

EllD == Ring(<< <<0, 0>>, <<4, 0>>, <<4, 1>>, <<1, 1>>, <<1, 4>>, <<0, 4>>, <<0, 0>> >>)

WellFormedGeometries == { SquareA, BlockB, SquareC, EllD }

MalformedGeometries == { NoGeometry, NullGeometry, UnknownGeometry, ShortRing }

\* attribute values: a string (a sequence of characters), null, or no such key
Str(chars) == [ tag |-> "str", chars |-> chars ]

NullValue == [ tag |-> "null", chars |-> << >> ]

AbsentValue == [ tag |-> "absent", chars |-> << >> ]

AttributeValues ==
    { AbsentValue, NullValue }
        \cup { Str(s) : s \in { <<"1", "7">>, <<"-", "7">>, << >>, <<"a">>, <<"7", "a">> } }

Props(lat, lon) == [ tag |-> "map", latitude |-> lat, longitude |-> lon ]

\* a feature without a 'properties' key, and with "properties": null
NoProps == [ tag |-> "absent", latitude |-> AbsentValue, longitude |-> AbsentValue ]

NullProps == [ tag |-> "null", latitude |-> AbsentValue, longitude |-> AbsentValue ]

AllProps == { NoProps, NullProps } \cup { Props(a, b) : a, b \in AttributeValues }

DatasetProps == Props(Str(<<"1", "7">>), Str(<<"7">>))

Feature(g, p) == [ geometry |-> g, properties |-> p ]

\* the features the collections of several features are built from
PoolFeatures ==
    { Feature(g, DatasetProps) : g \in WellFormedGeometries \cup { NoGeometry } }

\* every feature of the model
AllFeatures ==
    { Feature(g, DatasetProps) : g \in WellFormedGeometries }
        \cup { Feature(g, p) : g \in MalformedGeometries, p \in AllProps }

SeqsUpTo(S, n) == UNION { [1..k -> S] : k \in 0..n }

\* a parsed JSON document: a mapping with a 'features' list, a mapping with
\* no 'features' key or with a 'features' that is no list, or no mapping
Collection(fs) == [ json |-> "object", features_tag |-> "list", features |-> fs ]

ObjectNoFeatures == [ json |-> "object", features_tag |-> "absent", features |-> << >> ]

ObjectNullFeatures == [ json |-> "object", features_tag |-> "null", features |-> << >> ]

ArrayDocument == [ json |-> "array", features_tag |-> "absent", features |-> << >> ]

NumberDocument == [ json |-> "number", features_tag |-> "absent", features |-> << >> ]

NoDocument == [ json |-> "none", features_tag |-> "absent", features |-> << >> ]

Collections ==
    { Collection(fs) : fs \in SeqsUpTo(PoolFeatures, MaxFeatures) }
        \cup { Collection(<<f>>) : f \in AllFeatures }

NonCollections == { ObjectNoFeatures, ObjectNullFeatures, ArrayDocument, NumberDocument }

\* the file at GEOJSON_PATH
File(status, doc) == [ status |-> status, document |-> doc ]

Sources ==
    { File(s, NoDocument) : s \in { "missing", "unreadable", "bad_syntax" } }
        \cup { File("json", d) : d \in Collections \cup NonCollections }

(***************************************************************************)
(* shapely: shape(), Point.distance(), Polygon.contains(), centroid, bounds *)
(***************************************************************************)
Ok(v) == [ ok |-> TRUE, value |-> v, exc |-> "" ]

Raise(e) == [ ok |-> FALSE, value |-> << >>, exc |-> e ]

\* feature['geometry'] followed by shape(): the ring of a polygon, or the
\* exception raised
Shape(feature) ==
    LET g == feature.geometry
    IN  CASE g.type = "absent" -> Raise("KeyError")
          [] g.type = "null" -> Raise("AttributeError")
          [] g.type # "Polygon" -> Raise("GeometryTypeError")
          [] Len(g.coordinates) < 3 -> Raise("ValueError")
          [] OTHER -> Ok(g.coordinates)

\* the i-th edge of a ring, the last position joined to the first
EdgeFrom(ring, i) == ring[i]

EdgeTo(ring, i) == ring[(i % Len(ring)) + 1]

\* squared distance from point p to the segment a-b (exact when the segment
\* is parallel to an axis, as every edge of the model's polygons is)
SegmentDistanceSq(p, a, b) ==
    LET dx == b[1] - a[1]
        dy == b[2] - a[2]
        len2 == Sq(dx) + Sq(dy)
        dot == (p[1] - a[1]) * dx + (p[2] - a[2]) * dy
        cross == (p[1] - a[1]) * dy - (p[2] - a[2]) * dx
    IN  IF len2 = 0 \/ dot <= 0 THEN Sq(p[1] - a[1]) + Sq(p[2] - a[2])
        ELSE IF dot >= len2 THEN Sq(p[1] - b[1]) + Sq(p[2] - b[2])
        ELSE Sq(cross) \div len2

OnBoundary(ring, p) ==
    \E i \in 1..Len(ring) : SegmentDistanceSq(p, EdgeFrom(ring, i), EdgeTo(ring, i)) = 0

\* the edge a-b crosses the half-line from p towards growing longitude
CrossesRay(p, a, b) ==
    /\ (a[2] > p[2]) # (b[2] > p[2])
    /\ IF b[2] > a[2]
       THEN (p[1] - a[1]) * (b[2] - a[2]) < (p[2] - a[2]) * (b[1] - a[1])
       ELSE (p[1] - a[1]) * (b[2] - a[2]) > (p[2] - a[2]) * (b[1] - a[1])

InsideOrOnBoundary(ring, p) ==
    \/ OnBoundary(ring, p)
    \/ Cardinality({ i \in 1..Len(ring) :
                        CrossesRay(p, EdgeFrom(ring, i), EdgeTo(ring, i)) }) % 2 = 1

\* Polygon.contains(Point): the point lies in the interior, not on the boundary
Contains(ring, p) == InsideOrOnBoundary(ring, p) /\ ~OnBoundary(ring, p)

\* Point.distance(Polygon), squared: 0 inside and on the boundary
DistanceSq(p, ring) ==
    IF InsideOrOnBoundary(ring, p) THEN 0
    ELSE SetMin({ SegmentDistanceSq(p, EdgeFrom(ring, i), EdgeTo(ring, i)) :
                    i \in 1..Len(ring) })

RECURSIVE SumOf(_)
SumOf(terms) == IF terms = << >> THEN 0 ELSE Head(terms) + SumOf(Tail(terms))

\* Polygon.centroid as <<lon, lat>>, each a rational
Centroid(ring) ==
    LET n == Len(ring)
        X(i) == EdgeFrom(ring, i)[1]
        Y(i) == EdgeFrom(ring, i)[2]
        X2(i) == EdgeTo(ring, i)[1]
        Y2(i) == EdgeTo(ring, i)[2]
        Cross(i) == X(i) * Y2(i) - X2(i) * Y(i)
        TermX(i) == (X(i) + X2(i)) * Cross(i)
        TermY(i) == (Y(i) + Y2(i)) * Cross(i)
        area6 == 3 * SumOf([ i \in 1..n |-> Cross(i) ])
    IN  << Rat(SumOf([ i \in 1..n |-> TermX(i) ]), area6),
           Rat(SumOf([ i \in 1..n |-> TermY(i) ]), area6) >>

\* Polygon.bounds: (minx, miny, maxx, maxy)
BoundsOf(ring) ==
    LET xs == { ring[i][1] : i \in 1..Len(ring) }
        ys == { ring[i][2] : i \in 1..Len(ring) }
    IN  << SetMin(xs), SetMin(ys), SetMax(xs), SetMax(ys) >>

(***************************************************************************)
(* src/utils.py                                                            *)
(***************************************************************************)
\* load_building_data: open() and json.load() raise, or the parsed document
\* is returned as it is
load_building_data(geojson_path) ==
    CASE geojson_path.status = "missing" -> Raise("FileNotFoundError")
      [] geojson_path.status = "unreadable" -> Raise("PermissionError")
      [] geojson_path.status = "bad_syntax" -> Raise("JSONDecodeError")
      [] OTHER -> Ok(geojson_path.document)

\* buildings_geojson.get('features', [])
GetFeatures(buildings_geojson) ==
    CASE buildings_geojson.json # "object" -> Raise("AttributeError")
      [] buildings_geojson.features_tag = "absent" -> Ok(<< >>)
      [] OTHER -> Ok(buildings_geojson.features)

\* the results of find_building_by_coordinates
Found(i, d) == [ kind |-> "found", index |-> i, distance |-> d ]

NotFound == [ kind |-> "none", index |-> 0, distance |-> 0 ]

Raised(e) == [ kind |-> "raise", exc |-> e ]

\* a float: a finite value or float('inf')
Finite(v) == [ inf |-> FALSE, val |-> v ]

Infinity == [ inf |-> TRUE, val |-> 0 ]

\* LessThan with the comparison against the running minimum left out: the
\* last polygon within the bound is kept
LessThan_LastWins(distance_meters, min_distance) == TRUE

\* LessThan with <= for <: a later polygon of equal distance is kept
LessThan_OrEqual(distance_meters, min_distance) ==
    min_distance.inf \/ distance_meters <= min_distance.val

\* distance_meters < min_distance
LessThan(distance_meters, min_distance) ==
    min_distance.inf \/ distance_meters < min_distance.val

\* WithinBound with < for <=: a polygon at exactly max_distance is rejected
WithinBound_Strict(distance_meters, max_distance) ==
    max_distance > 0 /\ distance_meters < Sq(max_distance \div 1000)

\* WithinBound with the test against max_distance left out
WithinBound_Ignored(distance_meters, max_distance) == TRUE

\* distance_meters <= max_distance, distance_meters >= 0 carried by its
\* square in kilometres and max_distance a whole number of kilometres
WithinBound(distance_meters, max_distance) ==
    max_distance >= 0 /\ distance_meters <= Sq(max_distance \div 1000)

\* distance * 111000, on the squares
ToMeters(distanceSq) == distanceSq * Sq(MetersPerDegree \div 1000)

\* ScanFeatures without the early return for a containing polygon: it is
\* tracked like any other polygon, at distance 0
RECURSIVE ScanFeatures_NoEarlyReturn(_, _, _, _, _, _)
ScanFeatures_NoEarlyReturn(features, i, clicked_point, max_distance, closest_building, min_distance) ==
    IF i > Len(features)
    THEN IF closest_building # 0 THEN Found(closest_building, min_distance.val)
         ELSE NotFound
    ELSE LET building_geom == Shape(features[i])
         IN  IF ~building_geom.ok
             THEN ScanFeatures_NoEarlyReturn(features, i + 1, clicked_point, max_distance,
                                             closest_building, min_distance)
             ELSE LET distance == DistanceSq(clicked_point, building_geom.value)
                      distance_meters == ToMeters(distance)
                  IN  IF /\ LessThan(distance_meters, min_distance)
                         /\ WithinBound(distance_meters, max_distance)
                      THEN ScanFeatures_NoEarlyReturn(features, i + 1, clicked_point,
                                                      max_distance, i, Finite(distance_meters))
                      ELSE ScanFeatures_NoEarlyReturn(features, i + 1, clicked_point,
                                                      max_distance, closest_building,
                                                      min_distance)

\* ScanFeatures with break for continue in the exception handler: the scan
\* ends at the first malformed feature
RECURSIVE ScanFeatures_StopAtMalformed(_, _, _, _, _, _)
ScanFeatures_StopAtMalformed(features, i, clicked_point, max_distance, closest_building, min_distance) ==
    IF i > Len(features) \/ ~Shape(features[i]).ok
    THEN IF closest_building # 0 THEN Found(closest_building, min_distance.val)
         ELSE NotFound
    ELSE LET building_geom == Shape(features[i])
             distance == DistanceSq(clicked_point, building_geom.value)
             distance_meters == ToMeters(distance)
         IN  IF Contains(building_geom.value, clicked_point)
             THEN Found(i, 0)
             ELSE IF /\ LessThan(distance_meters, min_distance)
                     /\ WithinBound(distance_meters, max_distance)
                  THEN ScanFeatures_StopAtMalformed(features, i + 1, clicked_point,
                                                    max_distance, i, Finite(distance_meters))
                  ELSE ScanFeatures_StopAtMalformed(features, i + 1, clicked_point,
                                                    max_distance, closest_building,
                                                    min_distance)

\* the loop of find_building_by_coordinates from feature i on, and the
\* statements after it; the index of a feature stands for the feature
RECURSIVE ScanFeatures(_, _, _, _, _, _)
ScanFeatures(features, i, clicked_point, max_distance, closest_building, min_distance) ==
    IF i > Len(features)
    THEN IF closest_building # 0 THEN Found(closest_building, min_distance.val)
         ELSE NotFound
    ELSE LET building_geom == Shape(features[i])
         IN  IF ~building_geom.ok
             THEN ScanFeatures(features, i + 1, clicked_point, max_distance,
                               closest_building, min_distance)
             ELSE LET distance == DistanceSq(clicked_point, building_geom.value)
                      distance_meters == ToMeters(distance)
                  IN  IF Contains(building_geom.value, clicked_point)
                      THEN Found(i, 0)
                      ELSE IF /\ LessThan(distance_meters, min_distance)
                              /\ WithinBound(distance_meters, max_distance)
                           THEN ScanFeatures(features, i + 1, clicked_point, max_distance,
                                             i, Finite(distance_meters))
                           ELSE ScanFeatures(features, i + 1, clicked_point, max_distance,
                                             closest_building, min_distance)

find_building_by_coordinates(lat, lon, buildings_geojson, max_distance) ==
    LET clicked_point == <<lon, lat>>
        features == GetFeatures(buildings_geojson)
    IN  IF ~features.ok THEN Raised(features.exc)
        ELSE IF buildings_geojson.features_tag = "null" THEN Raised("TypeError")
        ELSE ScanFeatures(features.value, 1, clicked_point, max_distance, 0, Infinity)

DigitValue(c) ==
    CASE c = "0" -> 0 [] c = "1" -> 1 [] c = "2" -> 2 [] c = "3" -> 3 [] c = "4" -> 4
      [] c = "5" -> 5 [] c = "6" -> 6 [] c = "7" -> 7 [] c = "8" -> 8 [] c = "9" -> 9
      [] OTHER -> -1

RECURSIVE DigitsValue(_, _)
DigitsValue(chars, acc) ==
    IF chars = << >> THEN acc
    ELSE DigitsValue(Tail(chars), 10 * acc + DigitValue(Head(chars)))

\* float(value) for the attribute values of the model: a string of an
\* optional sign and one or more digits parses, any other string raises
\* ValueError, None raises TypeError
ToFloat(value) ==
    CASE value.tag = "null" -> Raise("TypeError")
      [] value.tag = "num" -> Ok(Rat(value.num, 1))
      [] OTHER ->
            LET signed == value.chars # << >> /\ Head(value.chars) \in { "-", "+" }
                digits == IF signed THEN Tail(value.chars) ELSE value.chars
                valid == digits # << >>
                            /\ \A k \in 1..Len(digits) : DigitValue(digits[k]) >= 0
                magnitude == DigitsValue(digits, 0)
            IN  IF ~valid THEN Raise("ValueError")
                ELSE IF signed /\ Head(value.chars) = "-" THEN Ok(Rat(-magnitude, 1))
                ELSE Ok(Rat(magnitude, 1))

\* props.get(key, 0): the default 0 when the key is absent
GetOrZero(value) == IF value.tag = "absent" THEN [ tag |-> "num", num |-> 0 ] ELSE value

\* the results of get_building_center and get_building_bounds
Center(lat, lon) == [ kind |-> "center", lat |-> lat, lon |-> lon ]

Box(b) == [ kind |-> "bounds", bounds |-> b ]

NoBox == [ kind |-> "None" ]

get_building_center(building_feature) ==
    LET building_geom == Shape(building_feature)
    IN  IF building_geom.ok
        THEN LET centroid == Centroid(building_geom.value)
             IN  Center(centroid[2], centroid[1])
        ELSE LET props == building_feature.properties
                 lat == ToFloat(GetOrZero(props.latitude))
                 lon == ToFloat(GetOrZero(props.longitude))
             IN  CASE props.tag = "null" -> Raised("AttributeError")
                   [] ~lat.ok -> Raised(lat.exc)
                   [] ~lon.ok -> Raised(lon.exc)
                   [] OTHER -> Center(lat.value, lon.value)

\* get_building_bounds with latitude before longitude
get_building_bounds_LatFirst(building_feature) ==
    LET building_geom == Shape(building_feature)
        b == BoundsOf(building_geom.value)
    IN  IF building_geom.ok THEN Box(<< b[2], b[1], b[4], b[3] >>) ELSE NoBox

get_building_bounds(building_feature) ==
    LET building_geom == Shape(building_feature)
    IN  IF building_geom.ok THEN Box(BoundsOf(building_geom.value)) ELSE NoBox

(***************************************************************************)
(* The state machine: the app script loads the collection once             *)
(* (src/app.py:58-64), then a query of src/utils.py runs against it. The   *)
(* queries read their arguments only (utils.py keeps no module state), so  *)
(* a behaviour applies one query to the loaded collection and records its  *)
(* arguments in call and what it returned or raised in result.             *)
(***************************************************************************)
\* the clicks and the values of max_distance (metres) the queries are given
Clicks == (0..GridMax) \X (0..GridMax)

MaxDistances == { -1000, 0, 111000, 250000 }

Call(op, lat, lon, max_distance, index) ==
    [ op |-> op, lat |-> lat, lon |-> lon, max_distance |-> max_distance, index |-> index ]

NoCall == Call("none", 0, 0, 0, 0)

NoResult == [ kind |-> "idle" ]

Init ==
    /\ source \in Sources
    /\ pc = "start"
    /\ buildings_data = NoDocument
    /\ total_buildings = 0
    /\ call = NoCall
    /\ result = NoResult
    /\ bearing = Idle
    /\ threads = Idle
    /\ session = Idle
    /\ retry = Idle

\* app.py:59-64: buildings_data = load_buildings(); total_buildings =
\* len(buildings_data.get('features', [])); any exception stops the run
LoadBuildings ==
    /\ pc = "start"
    /\ LET loaded == load_building_data(source)
           features == GetFeatures(loaded.value)
       IN  IF ~loaded.ok
           THEN /\ pc' = "stopped"
                /\ UNCHANGED <<buildings_data, total_buildings>>
           ELSE IF ~features.ok \/ loaded.value.features_tag = "null"
           THEN /\ pc' = "stopped"
                /\ buildings_data' = loaded.value
                /\ UNCHANGED total_buildings
           ELSE /\ pc' = "running"
                /\ buildings_data' = loaded.value
                /\ total_buildings' = Len(features.value)
    /\ UNCHANGED <<source, call, result>>
    /\ UNCHANGED <<bearing, threads, session, retry>>

\* app.py:170-175, utils.py:54-96
FindBuilding ==
    /\ pc = "running"
    /\ call = NoCall
    /\ \E click \in Clicks, max_distance \in MaxDistances :
          /\ call' = Call("find", click[1], click[2], max_distance, 0)
          /\ result' = find_building_by_coordinates(click[1], click[2],
                                                    buildings_data, max_distance)
    /\ UNCHANGED <<source, pc, buildings_data, total_buildings>>
    /\ UNCHANGED <<bearing, threads, session, retry>>

\* utils.py:99-118, on a feature of the loaded collection
GetBuildingCenter ==
    /\ pc = "running"
    /\ call = NoCall
    /\ \E i \in 1..Len(buildings_data.features) :
          /\ call' = Call("center", 0, 0, 0, i)
          /\ result' = get_building_center(buildings_data.features[i])
    /\ UNCHANGED <<source, pc, buildings_data, total_buildings>>
    /\ UNCHANGED <<bearing, threads, session, retry>>

\* utils.py:121-135, on a feature of the loaded collection
GetBuildingBounds ==
    /\ pc = "running"
    /\ call = NoCall
    /\ \E i \in 1..Len(buildings_data.features) :
          /\ call' = Call("bounds", 0, 0, 0, i)
          /\ result' = get_building_bounds(buildings_data.features[i])
    /\ UNCHANGED <<source, pc, buildings_data, total_buildings>>
    /\ UNCHANGED <<bearing, threads, session, retry>>

Next ==
    \/ LoadBuildings
    \/ FindBuilding
    \/ GetBuildingCenter
    \/ GetBuildingBounds

Spec == Init /\ [][Next]_vars

(***************************************************************************)
(* What the claims speak of, stated on the geometry and not on the scan    *)
(***************************************************************************)
Features == buildings_data.features

FindDone == pc = "running" /\ call.op = "find"

Click == <<call.lon, call.lat>>

WellFormedIndexes == { i \in 1..Len(Features) : Shape(Features[i]).ok }

RingAt(i) == Shape(Features[i]).value

Containing == { i \in WellFormedIndexes : Contains(RingAt(i), Click) }

ScaledDistance(i) == ToMeters(DistanceSq(Click, RingAt(i)))

\* a scaled distance (squared kilometres) is at most max_distance (metres)
AtMost(scaled, max_distance) ==
    max_distance >= 0 /\ scaled <= (max_distance \div 1000) * (max_distance \div 1000)

InReach == { i \in WellFormedIndexes : AtMost(ScaledDistance(i), call.max_distance) }

LeastOf(S) == CHOOSE m \in S : \A x \in S : m <= x

(***************************************************************************)
(* C1: when some well-formed polygon contains the click, the result is the *)
(* first containing polygon in collection order with distance 0, whatever  *)
(* max_distance is and whatever polygons come before or after it.          *)
(***************************************************************************)
C1_FirstContainingWins ==
    (FindDone /\ Containing # {}) => result = Found(LeastOf(Containing), 0)

\* the click lies on the boundary of the first polygon (distance 0, tracked
\* as closest), inside the second, which is returned, and inside the third
C1_Witness ==
    /\ FindDone
    /\ call.max_distance = 0
    /\ Len(Features) = 3
    /\ 1 \in WellFormedIndexes /\ ScaledDistance(1) = 0
    /\ Containing = {2, 3}
    /\ result = Found(2, 0)

(***************************************************************************)
(* C2: when no polygon contains the click and some polygon is within       *)
(* max_distance, the result is a polygon of least scaled distance among    *)
(* all well-formed polygons, together with exactly that distance.          *)
(***************************************************************************)
C2_NearestWithinBound ==
    (FindDone /\ Containing = {} /\ InReach # {}) =>
        /\ result.kind = "found"
        /\ result.index \in WellFormedIndexes
        /\ result.distance = ScaledDistance(result.index)
        /\ \A j \in WellFormedIndexes : ScaledDistance(j) >= result.distance

\* the nearest polygon comes after a farther one that is within the bound too
C2_Witness ==
    /\ FindDone
    /\ Containing = {}
    /\ result.kind = "found"
    /\ result.index > 1
    /\ result.distance > 0
    /\ \E j \in InReach : j < result.index /\ ScaledDistance(j) > result.distance

(***************************************************************************)
(* C3: the result is NotFound exactly when no well-formed polygon contains *)
(* the click and every well-formed polygon is strictly farther than        *)
(* max_distance; a polygon at exactly max_distance is accepted.            *)
(***************************************************************************)
C3_NotFoundIff ==
    FindDone => ((result = NotFound) <=> (Containing = {} /\ InReach = {}))

\* every polygon is farther than a positive bound, one of them just beyond it
C3_Witness ==
    /\ FindDone
    /\ result = NotFound
    /\ call.max_distance = 111000
    /\ \E i \in WellFormedIndexes : ScaledDistance(i) = ToMeters(2)
    /\ \E i \in 1..Len(Features) : i \notin WellFormedIndexes

(***************************************************************************)
(* C4: when no polygon contains the click and several polygons share the   *)
(* least scaled distance within the bound, the one of smallest index is    *)
(* returned.                                                               *)
(***************************************************************************)
C4_TieKeepsFirst ==
    (FindDone /\ Containing = {} /\ result.kind = "found") =>
        result.index = LeastOf({ i \in InReach :
                                    \A j \in InReach : ScaledDistance(i) <= ScaledDistance(j) })

\* two polygons that differ are equally near, the earlier one is returned
C4_Witness ==
    /\ FindDone
    /\ Containing = {}
    /\ result.kind = "found"
    /\ result.distance > 0
    /\ \E j \in InReach :
          /\ j > result.index
          /\ ScaledDistance(j) = result.distance
          /\ Features[j] # Features[result.index]

(***************************************************************************)
(* C5 as stated: for every polygon P of the collection and every click     *)
(* strictly inside P the result is (P, 0), whatever other polygons the     *)
(* collection holds and wherever they sit in the order.                    *)
(***************************************************************************)
C5_AnyContainingPolygonIsReturned ==
    FindDone =>
        \A i \in Containing :
            /\ result.kind = "found"
            /\ Features[result.index] = Features[i]
            /\ result.distance = 0

(***************************************************************************)
(* C5 as amended: for every polygon P and every click strictly inside P    *)
(* the result is (P, 0) provided no polygon earlier in the collection      *)
(* contains the click too.                                                 *)
(***************************************************************************)
C5_ContainingPolygonUnlessEarlierOne ==
    FindDone =>
        \A i \in Containing :
            (\A j \in 1..(i - 1) : j \notin Containing) => result = Found(i, 0)

\* the click is strictly inside a polygon that follows a nearer-than-bound
\* polygon not containing it
C5_Witness ==
    /\ FindDone
    /\ result.kind = "found"
    /\ result.index > 1
    /\ result.index \in Containing
    /\ \E j \in InReach : j < result.index /\ ScaledDistance(j) > 0

(***************************************************************************)
(* C6: malformed features are skipped: no exception, no malformed feature  *)
(* is returned, and the result is the one for the same collection with the *)
(* malformed features removed.                                             *)
(***************************************************************************)
WithoutMalformed == SelectSeq(Features, LAMBDA f : Shape(f).ok)

\* the position in WithoutMalformed of the well-formed feature at index i
PositionWithoutMalformed(i) == Cardinality({ j \in WellFormedIndexes : j <= i })

C6_MalformedSkipped ==
    FindDone =>
        LET clean == find_building_by_coordinates(call.lat, call.lon,
                        Collection(WithoutMalformed), call.max_distance)
        IN  /\ result.kind \in { "found", "none" }
            /\ result.kind = clean.kind
            /\ result.kind = "found" =>
                  /\ result.index \in WellFormedIndexes
                  /\ clean.index = PositionWithoutMalformed(result.index)
                  /\ clean.distance = result.distance

\* a malformed feature precedes the well-formed feature that is returned
C6_Witness ==
    /\ FindDone
    /\ result.kind = "found"
    /\ \E j \in 1..(result.index - 1) : j \notin WellFormedIndexes
    /\ result.index \in WellFormedIndexes

(***************************************************************************)
(* C7: a result is NotFound, or a feature of the collection with a         *)
(* distance >= 0 that is 0 when the feature contains the click and at most *)
(* max_distance otherwise.                                                 *)
(***************************************************************************)
C7_ResultWellFormed ==
    FindDone =>
        \/ result = NotFound
        \/ /\ result.kind = "found"
           /\ result.index \in 1..Len(Features)
           /\ result.distance >= 0
           /\ IF result.index \in Containing
              THEN result.distance = 0
              ELSE AtMost(result.distance, call.max_distance)

\* a polygon that does not contain the click, at a positive distance
C7_Witness ==
    /\ FindDone
    /\ result.kind = "found"
    /\ result.index \notin Containing
    /\ result.distance > 0
    /\ AtMost(result.distance, call.max_distance)

(***************************************************************************)
(* C8: loading fails when the geometry source is missing, unreadable or no *)
(* valid geometry-collection syntax; valid JSON that is no feature         *)
(* collection is rejected by load_building_data, not returned.             *)
(***************************************************************************)
IsFeatureCollection(file) ==
    /\ file.status = "json"
    /\ file.document.json = "object"
    /\ file.document.features_tag = "list"

C8_NonCollectionRejected ==
    (pc # "start" /\ ~IsFeatureCollection(source)) =>
        (pc = "stopped" /\ buildings_data = NoDocument)

(***************************************************************************)
(* C9: get_building_center never raises; when the centroid cannot be       *)
(* computed it returns the latitude and longitude attributes parsed as     *)
(* floats, each component that is absent or does not parse being 0.        *)
(***************************************************************************)
Zero == Rat(0, 1)

ParsedOrZero(props, value) ==
    IF props.tag # "map" THEN Zero
    ELSE IF ToFloat(GetOrZero(value)).ok THEN ToFloat(GetOrZero(value)).value
    ELSE Zero

C9_CenterNeverRaises ==
    (pc = "running" /\ call.op = "center") =>
        LET feature == Features[call.index]
            props == feature.properties
        IN  /\ result.kind = "center"
            /\ ~Shape(feature).ok =>
                  result = Center(ParsedOrZero(props, props.latitude),
                                  ParsedOrZero(props, props.longitude))

(***************************************************************************)
(* C10: get_building_bounds returns (minLon, minLat, maxLon, maxLat), the  *)
(* component-wise least and greatest coordinates of the raw vertex list,   *)
(* for a well-formed feature, and None when the geometry cannot be         *)
(* constructed.                                                            *)
(***************************************************************************)
C10_BoundsAreVertexExtremes ==
    (pc = "running" /\ call.op = "bounds") =>
        LET feature == Features[call.index]
            vertices == feature.geometry.coordinates
            lons == { vertices[k][1] : k \in 1..Len(vertices) }
            lats == { vertices[k][2] : k \in 1..Len(vertices) }
        IN  IF call.index \in WellFormedIndexes
            THEN /\ result.kind = "bounds"
                 /\ result.bounds[1] \in lons /\ \A x \in lons : result.bounds[1] <= x
                 /\ result.bounds[2] \in lats /\ \A y \in lats : result.bounds[2] <= y
                 /\ result.bounds[3] \in lons /\ \A x \in lons : x <= result.bounds[3]
                 /\ result.bounds[4] \in lats /\ \A y \in lats : y <= result.bounds[4]
            ELSE result = NoBox

\* the bounds of a polygon whose extent in longitude differs from its
\* extent in latitude
C10_Witness ==
    /\ pc = "running"
    /\ call.op = "bounds"
    /\ call.index \in WellFormedIndexes
    /\ result.kind = "bounds"
    /\ result.bounds[3] - result.bounds[1] # result.bounds[4] - result.bounds[2]

(***************************************************************************)
(* calculate_bearing (src/utils.py:155-173). Floats are modelled by a      *)
(* binary floating-point format of MantissaBits bits, a value being a      *)
(* whole number of units of 2^-FractionBits degree, with round-to-nearest, *)
(* ties-to-even, as IEEE 754 doubles round. sin, cos and atan2 are not     *)
(* computed: the raw bearing is any float atan2 can give for the signs of  *)
(* its two arguments.                                                      *)
(***************************************************************************)
MantissaBits == 10

FractionBits == 3

RECURSIVE Pow2(_)
Pow2(n) == IF n = 0 THEN 1 ELSE 2 * Pow2(n - 1)

\* d degrees, in units
Deg(d) == d * Pow2(FractionBits)

\* the binade of a magnitude: the floats around it are Pow2(k) units apart
RECURSIVE BinadeOf(_, _)
BinadeOf(a, k) == IF a < Pow2(MantissaBits + k) THEN k ELSE BinadeOf(a, k + 1)

\* the float nearest to the real v, ties to the even mantissa
FloatRound(v) ==
    LET a == Abs(v)
        step == Pow2(BinadeOf(a, 0))
        q == a \div step
        r == a % step
        m == IF 2 * r < step THEN q
             ELSE IF 2 * r > step THEN q + 1
             ELSE IF q % 2 = 0 THEN q ELSE q + 1
    IN  IF v < 0 THEN -(m * step) ELSE m * step

Floats(lo, hi) == { v \in lo..hi : FloatRound(v) = v }

\* math.degrees(math.atan2(y, x)) of utils.py:164-170: y has the sign of
\* lon2 - lon1, and with y = 0 the sign of x is that of lat2 - lat1;
\* atan2(0, 0) is 0
RawBearings(lat1, lon1, lat2, lon2) ==
    IF lon2 = lon1 THEN IF lat2 >= lat1 THEN { 0 } ELSE { Deg(180) }
    ELSE IF lon2 > lon1 THEN Floats(1, Deg(180))
    ELSE Floats(-Deg(180), -1)

\* NormalizeBearing with 360 added to a negative bearing only, and no modulo
NormalizeBearing_AddWhenNegative(bearing_deg) ==
    IF bearing_deg < 0 THEN FloatRound(bearing_deg + Deg(360)) ELSE bearing_deg

\* utils.py:173  return (bearing_deg + 360) % 360
NormalizeBearing(bearing_deg) == FloatRound(bearing_deg + Deg(360)) % Deg(360)

BearingCoordinates == { 0, 1 }

BearingReady(lat1, lon1, lat2, lon2) ==
    [ pc |-> "ready", lat1 |-> lat1, lon1 |-> lon1, lat2 |-> lat2, lon2 |-> lon2,
      raw |-> 0, value |-> 0 ]

\* the rest of the state, for the specifications that make no use of it
CoreIdle ==
    /\ source = File("missing", NoDocument)
    /\ pc = "idle"
    /\ buildings_data = NoDocument
    /\ total_buildings = 0
    /\ call = NoCall
    /\ result = NoResult

coreVars == <<source, pc, buildings_data, total_buildings, call, result>>

InitBearing ==
    /\ CoreIdle
    /\ bearing \in { BearingReady(a, b, c, d) : a, b, c, d \in BearingCoordinates }
    /\ threads = Idle
    /\ session = Idle
    /\ retry = Idle

CalculateBearing ==
    /\ bearing.pc = "ready"
    /\ \E bearing_deg \in RawBearings(bearing.lat1, bearing.lon1, bearing.lat2, bearing.lon2) :
          bearing' = [ bearing EXCEPT !.pc = "done", !.raw = bearing_deg,
                                      !.value = NormalizeBearing(bearing_deg) ]
    /\ UNCHANGED <<coreVars, threads, session, retry>>

NextBearing == CalculateBearing

SpecBearing == InitBearing /\ [][NextBearing]_vars

\* half the distance between the floats just below 360
HalfSpacingBelow360 == Pow2(BinadeOf(Deg(360) - 1, 0)) \div 2

(***************************************************************************)
(* C11 as stated: the result is in [0, 360); a raw bearing of 0 maps to 0, *)
(* a negative raw bearing b maps to b + 360 (the float sum), 360 is never  *)
(* returned, and identical points give 0.                                  *)
(***************************************************************************)
C11_NegativeMapsToSum ==
    bearing.pc = "done" =>
        /\ 0 <= bearing.value /\ bearing.value < Deg(360)
        /\ bearing.raw = 0 => bearing.value = 0
        /\ bearing.raw < 0 => bearing.value = FloatRound(bearing.raw + Deg(360))
        /\ (bearing.lat1 = bearing.lat2 /\ bearing.lon1 = bearing.lon2) => bearing.value = 0

(***************************************************************************)
(* C11 as amended: the result is in [0, 360); a raw bearing of 0 maps to   *)
(* 0; a negative raw bearing b maps to b + 360 rounded to a float, within  *)
(* half a float spacing of the exact sum, or to 0 when b is so close to 0  *)
(* that the sum rounds to 360; 360 is never returned; identical points     *)
(* give 0.                                                                 *)
(***************************************************************************)
C11_BearingInRange ==
    bearing.pc = "done" =>
        /\ 0 <= bearing.value /\ bearing.value < Deg(360)
        /\ bearing.raw = 0 => bearing.value = 0
        /\ bearing.raw < 0 =>
              \/ /\ bearing.value = 0
                 /\ -bearing.raw <= HalfSpacingBelow360
              \/ /\ bearing.value >= Deg(180)
                 /\ Abs(bearing.value - (bearing.raw + Deg(360))) <= HalfSpacingBelow360
        /\ (bearing.lat1 = bearing.lat2 /\ bearing.lon1 = bearing.lon2) => bearing.value = 0

\* a bearing slightly west of north: the raw bearing is negative and the
\* sum with 360 rounds to 360, so 0 is returned
C11_Witness ==
    /\ bearing.pc = "done"
    /\ bearing.lon2 < bearing.lon1
    /\ bearing.raw < 0
    /\ bearing.value = 0

(***************************************************************************)
(* generate_building_insights (src/vision.py:22-195): the retry loop.      *)
(* One step of the model is one iteration of the loop, the sleep of its    *)
(* except handler included.                                                *)
(***************************************************************************)
MaxRetries == 3

\* JSON values as json.loads returns them
JsonObject(keys) == [ json |-> "object", keys |-> keys, items |-> << >> ]

JsonArray(items) == [ json |-> "array", keys |-> {}, items |-> items ]

JsonNumber == [ json |-> "number", keys |-> {}, items |-> << >> ]

PyNone == [ json |-> "null", keys |-> {}, items |-> << >> ]

InsightsObject == JsonObject({ "building_type", "summary" })

\* what litellm.completion does: it raises, or it answers with a message
\* content that is None, text that is no JSON, or a JSON document
Response(kind, document) == [ kind |-> kind, document |-> document ]

NoResponse == Response("none", PyNone)

Responses ==
    { Response("raises", PyNone), Response("no_content", PyNone), Response("text", PyNone) }
        \cup { Response("json", d) :
                 d \in { InsightsObject, JsonObject({}), JsonArray(<<InsightsObject>>),
                         JsonArray(<< >>), JsonArray(<<JsonNumber>>), JsonNumber, PyNone } }

\* image_bytes: None, the bytes of a picture, or a value that is no bytes
Images == { "none", "bytes", "not_bytes" }

\* the try block of vision.py:117-175: the insights returned, or the
\* exception the handler of l.177 catches
TryBlock(image_bytes, response) ==
    IF image_bytes = "not_bytes" THEN Raise("TypeError")
    ELSE IF response.kind = "raises" THEN Raise("APIError")
    ELSE IF response.kind = "no_content" THEN Raise("TypeError")
    ELSE IF response.kind = "text" THEN Raise("JSONDecodeError")
    ELSE LET parsed == response.document
             insights == IF parsed.json = "array" /\ Len(parsed.items) > 0
                         THEN parsed.items[1]
                         ELSE parsed
         IN  IF insights.json = "object" THEN Ok(insights) ELSE Raise("AttributeError")

\* IsLastAttempt with the comparison off by one: no attempt is the last
IsLastAttempt_OffByOne(i, max_retries) == ~(i < max_retries)

\* vision.py:181  the else of  if i < max_retries - 1
IsLastAttempt(i, max_retries) == ~(i < max_retries - 1)

\* WaitTime growing linearly
WaitTime_Linear(i) == 2 * i

\* vision.py:182  wait_time = 2 ** i
WaitTime(i) == Pow2(i)

\* vision.py:186-190
ErrorPayload == JsonObject({ "error", "building_type", "summary" })

Returned(v) == [ kind |-> "return", value |-> v ]

Uncaught(e) == [ kind |-> "raise", value |-> PyNone, exc |-> e ]

Running == [ kind |-> "running" ]

AttemptEvent(i, response) == [ ev |-> "attempt", n |-> i, response |-> response ]

SleepEvent(wait_time) == [ ev |-> "sleep", n |-> wait_time, response |-> NoResponse ]

InsightsCall(building_data, image_bytes, max_retries) ==
    [ pc |-> "start", building_data |-> building_data, image_bytes |-> image_bytes,
      max_retries |-> max_retries, i |-> 0, log |-> << >>, returned |-> Running ]

InitInsights ==
    /\ CoreIdle
    /\ bearing = Idle
    /\ threads = Idle
    /\ session = Idle
    /\ retry \in { InsightsCall(b, img, m) :
                     b \in { "map", "none" }, img \in Images, m \in 0..MaxRetries }

\* vision.py:44-48  building_data.get(...), outside any try
PrepareContext ==
    /\ retry.pc = "start"
    /\ retry' = IF retry.building_data = "map"
                THEN [ retry EXCEPT !.pc = "loop" ]
                ELSE [ retry EXCEPT !.pc = "returned", !.returned = Uncaught("AttributeError") ]
    /\ UNCHANGED <<coreVars, bearing, threads, session>>

\* an iteration whose try block reaches  return insights  (l.175)
AttemptReturns ==
    /\ retry.pc = "loop"
    /\ retry.i < retry.max_retries
    /\ \E response \in Responses :
          LET outcome == TryBlock(retry.image_bytes, response)
          IN  /\ outcome.ok
              /\ retry' = [ retry EXCEPT !.pc = "returned",
                                         !.log = Append(@, AttemptEvent(retry.i, response)),
                                         !.returned = Returned(outcome.value) ]
    /\ UNCHANGED <<coreVars, bearing, threads, session>>

\* an iteration that ends in the handler's  time.sleep(wait_time)  (l.181-184)
AttemptFailsThenSleeps ==
    /\ retry.pc = "loop"
    /\ retry.i < retry.max_retries
    /\ ~IsLastAttempt(retry.i, retry.max_retries)
    /\ \E response \in Responses :
          /\ ~TryBlock(retry.image_bytes, response).ok
          /\ retry' = [ retry EXCEPT !.i = @ + 1,
                                     !.log = @ \o << AttemptEvent(retry.i, response),
                                                     SleepEvent(WaitTime(retry.i)) >> ]
    /\ UNCHANGED <<coreVars, bearing, threads, session>>

\* an iteration that ends in the handler's  return {"error": ...}  (l.185-191)
AttemptFailsThenGivesUp ==
    /\ retry.pc = "loop"
    /\ retry.i < retry.max_retries
    /\ IsLastAttempt(retry.i, retry.max_retries)
    /\ \E response \in Responses :
          /\ ~TryBlock(retry.image_bytes, response).ok
          /\ retry' = [ retry EXCEPT !.pc = "returned",
                                     !.log = Append(@, AttemptEvent(retry.i, response)),
                                     !.returned = Returned(ErrorPayload) ]
    /\ UNCHANGED <<coreVars, bearing, threads, session>>

\* range(max_retries) is exhausted:  return None  (l.193-195)
LoopExhausted ==
    /\ retry.pc = "loop"
    /\ ~(retry.i < retry.max_retries)
    /\ retry' = [ retry EXCEPT !.pc = "returned", !.returned = Returned(PyNone) ]
    /\ UNCHANGED <<coreVars, bearing, threads, session>>

NextInsights ==
    \/ PrepareContext
    \/ AttemptReturns
    \/ AttemptFailsThenSleeps
    \/ AttemptFailsThenGivesUp
    \/ LoopExhausted

SpecInsights == InitInsights /\ [][NextInsights]_vars

\* what the log of a call says
AttemptPositions == { k \in 1..Len(retry.log) : retry.log[k].ev = "attempt" }

SleepPositions == { k \in 1..Len(retry.log) : retry.log[k].ev = "sleep" }

\* the object a response parses to, if it parses to one: an object, or a
\* non-empty list that starts with one
ParsesToObject(response) ==
    /\ response.kind = "json"
    /\ \/ response.document.json = "object"
       \/ /\ response.document.json = "array"
          /\ response.document.items # << >>
          /\ response.document.items[1].json = "object"

ParsedObject(response) ==
    IF response.document.json = "object" THEN response.document
    ELSE response.document.items[1]

Succeeded(k) == retry.image_bytes # "not_bytes" /\ ParsesToObject(retry.log[k].response)

InsightsPrecondition == retry.building_data = "map" /\ retry.max_retries >= 1

(***************************************************************************)
(* C14: with the attributes a mapping and max_retries >= 1, the call never *)
(* raises; it makes at most max_retries attempts; an attempt that succeeds *)
(* is the last one and its parsed result is what is returned; when all     *)
(* max_retries attempts fail the value returned is a mapping with the key  *)
(* 'error'; None is never returned.                                        *)
(***************************************************************************)
C14_NeverRaisesBoundedAttempts ==
    InsightsPrecondition =>
        /\ retry.returned.kind # "raise"
        /\ Cardinality(AttemptPositions) <= retry.max_retries
        /\ \A k \in AttemptPositions :
              Succeeded(k) =>
                  /\ k = Len(retry.log)
                  /\ retry.pc = "returned"
                  /\ retry.returned = Returned(ParsedObject(retry.log[k].response))
        /\ retry.pc = "returned" =>
              /\ retry.returned.value # PyNone
              /\ AttemptPositions # {}
              /\ (\A k \in AttemptPositions : ~Succeeded(k)) =>
                    /\ Cardinality(AttemptPositions) = retry.max_retries
                    /\ retry.returned.value.json = "object"
                    /\ "error" \in retry.returned.value.keys

\* a call of two attempts or more, all of which failed
C14_Witness ==
    /\ InsightsPrecondition
    /\ retry.max_retries >= 2
    /\ retry.pc = "returned"
    /\ Cardinality(AttemptPositions) = retry.max_retries
    /\ \A k \in AttemptPositions : ~Succeeded(k)
    /\ retry.returned = Returned(ErrorPayload)

TotalWait == SumOf([ k \in 1..Len(retry.log) |->
                       IF retry.log[k].ev = "sleep" THEN retry.log[k].n ELSE 0 ])

(***************************************************************************)
(* C15: every wait follows a failed attempt i with i < max_retries - 1 and *)
(* lasts 2^i seconds, and every such attempt is followed by that wait; the *)
(* first attempt is preceded by no wait; the final failed attempt and a    *)
(* successful attempt are followed by nothing; a call whose attempts all   *)
(* failed has waited 2^(max_retries-1) - 1 seconds in total.               *)
(***************************************************************************)
C15_BackoffSchedule ==
    retry.building_data = "map" =>
        /\ \A k \in SleepPositions :
              /\ k > 1
              /\ retry.log[k - 1].ev = "attempt"
              /\ ~Succeeded(k - 1)
              /\ retry.log[k - 1].n < retry.max_retries - 1
              /\ retry.log[k].n = Pow2(retry.log[k - 1].n)
        /\ \A k \in AttemptPositions :
              /\ (~Succeeded(k) /\ retry.log[k].n < retry.max_retries - 1) =>
                    /\ k < Len(retry.log)
                    /\ retry.log[k + 1] = SleepEvent(Pow2(retry.log[k].n))
              /\ (Succeeded(k) \/ retry.log[k].n = retry.max_retries - 1) =>
                    k = Len(retry.log)
              /\ retry.log[k].n = 0 <=> k = 1
        /\ (/\ retry.pc = "returned"
            /\ retry.max_retries >= 1
            /\ \A k \in AttemptPositions : ~Succeeded(k)) =>
              TotalWait = Pow2(retry.max_retries - 1) - 1

\* a call of three attempts or more, all failed: waits of 1 and 2 seconds
C15_Witness ==
    /\ retry.building_data = "map"
    /\ retry.pc = "returned"
    /\ retry.max_retries >= 3
    /\ Cardinality(AttemptPositions) = retry.max_retries
    /\ \A k \in AttemptPositions : ~Succeeded(k)
    /\ Cardinality(SleepPositions) = retry.max_retries - 1
    /\ retry.log[2] = SleepEvent(1)
    /\ retry.log[4] = SleepEvent(2)

(***************************************************************************)
(* The queries of src/utils.py called from several threads against one     *)
(* loaded collection. A thread has its own frame of locals; the collection *)
(* is the one object the threads share. A step of a thread is one          *)
(* iteration of the loop of find_building_by_coordinates, or a whole call  *)
(* of get_building_center or get_building_bounds.                          *)
(***************************************************************************)
NumThreads == 2

ThreadIds == 1..NumThreads

ThreadCollection == Collection(<< Feature(SquareA, DatasetProps), Feature(NoGeometry, DatasetProps), Feature(SquareC, DatasetProps) >>)

\* clicks as <<lat, lon>>: inside the first square, one and two units
\* east of it
ThreadClicks == { <<1, 1>>, <<0, 3>>, <<0, 4>> }

ThreadMaxDistance == 250000

\* the locals of a call; a frame at rest holds what the last call left, and
\* earlier tells whether the thread had made a call before this one
Frame(pc_, call_, i, closest_building, min_distance, result_, earlier) ==
    [ pc |-> pc_, call |-> call_, i |-> i, closest_building |-> closest_building,
      min_distance |-> min_distance, result |-> result_, earlier |-> earlier ]

\* InitialMinimum with the minimum of the thread's last call kept
InitialMinimum_Carried(frame) == frame.min_distance

\* utils.py:70  min_distance = float('inf')
InitialMinimum(frame) == Infinity

\* utils.py:72-91: the iteration of the loop for feature frame.i, and the
\* statements of l.93-96 once the features are exhausted
Iteration(frame, features) ==
    LET i == frame.i
        clicked_point == << frame.call.lon, frame.call.lat >>
        finished(r) == [ frame EXCEPT !.pc = "done", !.result = r ]
    IN  IF i > Len(features)
        THEN IF frame.closest_building # 0
             THEN finished(Found(frame.closest_building, frame.min_distance.val))
             ELSE finished(NotFound)
        ELSE LET building_geom == Shape(features[i])
             IN  IF ~building_geom.ok
                 THEN [ frame EXCEPT !.i = i + 1 ]
                 ELSE LET distance == DistanceSq(clicked_point, building_geom.value)
                          distance_meters == ToMeters(distance)
                      IN  IF Contains(building_geom.value, clicked_point)
                          THEN finished(Found(i, 0))
                          ELSE IF /\ LessThan(distance_meters, frame.min_distance)
                                  /\ WithinBound(distance_meters, frame.call.max_distance)
                               THEN [ frame EXCEPT !.i = i + 1,
                                                   !.closest_building = i,
                                                   !.min_distance = Finite(distance_meters) ]
                               ELSE [ frame EXCEPT !.i = i + 1 ]

InitThreads ==
    /\ source = File("json", ThreadCollection)
    /\ pc = "running"
    /\ buildings_data = ThreadCollection
    /\ total_buildings = Len(ThreadCollection.features)
    /\ call = NoCall
    /\ result = NoResult
    /\ threads = [ t \in ThreadIds |-> Frame("idle", NoCall, 0, 0, Infinity, NoResult, FALSE) ]
    /\ bearing = Idle
    /\ session = Idle
    /\ retry = Idle

AtRest(frame) == frame.pc \in { "idle", "done" }

\* utils.py:67-70: the call is entered and its locals are set
StartFind(t) ==
    /\ AtRest(threads[t])
    /\ \E click \in ThreadClicks :
          threads' = [ threads EXCEPT ![t] =
              Frame("scan", Call("find", click[1], click[2], ThreadMaxDistance, 0),
                    1, 0, InitialMinimum(threads[t]), NoResult, threads[t].pc = "done") ]
    /\ UNCHANGED <<coreVars, bearing, session, retry>>

ScanStep(t) ==
    /\ threads[t].pc = "scan"
    /\ threads' = [ threads EXCEPT ![t] = Iteration(@, GetFeatures(buildings_data).value) ]
    /\ UNCHANGED <<coreVars, bearing, session, retry>>

\* utils.py:99-118
CallCenter(t) ==
    /\ AtRest(threads[t])
    /\ \E index \in 1..Len(buildings_data.features) :
          threads' = [ threads EXCEPT ![t] =
              [ @ EXCEPT !.pc = "done", !.call = Call("center", 0, 0, 0, index),
                         !.result = get_building_center(buildings_data.features[index]),
                         !.earlier = threads[t].pc = "done" ] ]
    /\ UNCHANGED <<coreVars, bearing, session, retry>>

\* utils.py:121-135
CallBounds(t) ==
    /\ AtRest(threads[t])
    /\ \E index \in 1..Len(buildings_data.features) :
          threads' = [ threads EXCEPT ![t] =
              [ @ EXCEPT !.pc = "done", !.call = Call("bounds", 0, 0, 0, index),
                         !.result = get_building_bounds(buildings_data.features[index]),
                         !.earlier = threads[t].pc = "done" ] ]
    /\ UNCHANGED <<coreVars, bearing, session, retry>>

NextThreads ==
    \E t \in ThreadIds :
        \/ StartFind(t)
        \/ ScanStep(t)
        \/ CallCenter(t)
        \/ CallBounds(t)

SpecThreads == InitThreads /\ [][NextThreads]_vars

\* what the call of a frame returns when it runs alone on the collection
Alone(call_, collection) ==
    CASE call_.op = "find" ->
            find_building_by_coordinates(call_.lat, call_.lon, collection, call_.max_distance)
      [] call_.op = "center" -> get_building_center(collection.features[call_.index])
      [] OTHER -> get_building_bounds(collection.features[call_.index])

(***************************************************************************)
(* C12: whatever the threads have called before and however their calls    *)
(* interleave, a call that has returned has returned what it returns when  *)
(* run alone on the loaded collection, and the collection is the one that  *)
(* was loaded.                                                             *)
(***************************************************************************)
C12_CallsAsIfAlone ==
    /\ buildings_data = source.document
    /\ \A t \in ThreadIds :
          threads[t].pc = "done" => threads[t].result = Alone(threads[t].call, source.document)

\* a thread has returned from a resolution that was not its first call and
\* that found a polygon at a distance, while another thread is inside the
\* loop
C12_Witness ==
    \E t, u \in ThreadIds :
        /\ t # u
        /\ threads[t].pc = "done"
        /\ threads[t].earlier
        /\ threads[t].call.op = "find"
        /\ threads[t].result.kind = "found"
        /\ threads[t].result.distance > 0
        /\ threads[u].pc = "scan"
        /\ threads[u].i > 1

(***************************************************************************)
(* src/app.py as Streamlit runs it: the script is run from the top at the  *)
(* start of the session and again after every widget event and every      *)
(* st.rerun(). A run is four steps: the load (l.59-64), the sidebar and    *)
(* the map column (l.70-158), the information column (l.160-248) and the   *)
(* insights section (l.253-410). st.session_state and the values of the    *)
(* widgets outlive a run; pc is the position of the script.                *)
(***************************************************************************)
\* st.session_state.selected_building holds a feature of buildings_data,
\* modelled by its position in the collection; 0 is None or not set
NoBuilding == 0

NoClick == [ set |-> FALSE, lat |-> 0, lng |-> 0 ]

LastClicked(lat, lng) == [ set |-> TRUE, lat |-> lat, lng |-> lng ]

\* the places the user clicks at: inside the first square, on a corner of
\* the small square, and away from both
AppClicks == { LastClicked(1, 1), LastClicked(4, 4), LastClicked(0, 4) }

\* two positions of the 'Max Search Distance' slider, the first its default
SliderDefault == 111000

SliderValues == { SliderDefault, 250000 }

AppCollections ==
    { Collection(<< Feature(SquareA, DatasetProps), Feature(SquareC, NullProps) >>),
      Collection(<< Feature(BlockB, DatasetProps), Feature(SquareC, DatasetProps) >>) }

AppSources ==
    { File("missing", NoDocument), File("json", ArrayDocument), File("json", ObjectNoFeatures) }
        \cup { File("json", d) : d \in AppCollections }

\* what a run has done so far
NewRun(trigger) ==
    [ trigger |-> trigger, load_calls |-> 0, loaded |-> FALSE, error_shown |-> FALSE,
      calls |-> {}, marker_for |-> NoBuilding, found |-> "none",
      insights_for |-> NoBuilding ]

\* a new run of the script: the widgets are drawn anew, and a button reads
\* True only in the run its press has started
StartRun(s, trigger, pressed) ==
    [ s EXCEPT !.pressed = pressed, !.rendered = {}, !.run = NewRun(trigger) ]

NewSession ==
    [ selected_building |-> NoBuilding, generate_insights |-> FALSE,
      last_clicked |-> NoClick, max_search_distance |-> SliderDefault,
      cached |-> FALSE, pressed |-> "none", rendered |-> {}, run |-> NewRun("start") ]

InitApp ==
    /\ source \in AppSources
    /\ pc = "load"
    /\ buildings_data = NoDocument
    /\ total_buildings = 0
    /\ call = NoCall
    /\ result = NoResult
    /\ session = NewSession
    /\ bearing = Idle
    /\ threads = Idle
    /\ retry = Idle

\* AfterLoadError with the script running on after the error message
AfterLoadError_RunsOn == "map"

\* app.py:64  st.stop()
AfterLoadError == "stopped"

\* app.py:44-47, 59-64: load_buildings() answers from the cache of
\* st.cache_data or calls load_building_data; the except branch shows the
\* error and stops the run
AppLoad ==
    /\ pc = "load"
    /\ LET loaded == IF session.cached THEN Ok(buildings_data)
                     ELSE load_building_data(source)
           features == GetFeatures(loaded.value)
           counted == [ session EXCEPT !.run.load_calls = @ + 1 ]
       IN  IF ~loaded.ok
           THEN /\ pc' = AfterLoadError
                /\ session' = [ counted EXCEPT !.run.error_shown = TRUE ]
                /\ UNCHANGED <<buildings_data, total_buildings>>
           ELSE IF ~features.ok \/ loaded.value.features_tag = "null"
           THEN /\ pc' = AfterLoadError
                /\ session' = [ counted EXCEPT !.cached = TRUE, !.run.loaded = TRUE,
                                               !.run.error_shown = TRUE ]
                /\ buildings_data' = loaded.value
                /\ UNCHANGED total_buildings
           ELSE /\ pc' = "map"
                /\ session' = [ counted EXCEPT !.cached = TRUE, !.run.loaded = TRUE ]
                /\ buildings_data' = loaded.value
                /\ total_buildings' = Len(features.value)
    /\ UNCHANGED <<source, call, result, bearing, threads, retry>>

SelectedFeature(s) == buildings_data.features[s.selected_building]

\* app.py:148  building['properties'].get(...) in the marker's popup
MarkerRaises(building) == building.properties.tag # "map"

\* app.py:182-200  props = building.get('properties', {}); props.get(...)
DisplayRaises(building) == building.properties.tag = "null"

\* app.py:70-158: the sidebar with the slider, the marker of the selected
\* building, and st_folium, which gives back the last click; the component
\* keeps the click over a rerun or, drawn anew, has forgotten it. An
\* exception ends the run where it is raised.
AppMap ==
    /\ pc = "map"
    /\ LET sidebar == [ session EXCEPT !.rendered = @ \cup { "slider" } ]
       IN  IF session.selected_building # NoBuilding
           THEN LET drawn == [ sidebar EXCEPT
                                 !.run.calls = @ \cup { "get_building_center" },
                                 !.run.marker_for = session.selected_building ]
                IN  IF MarkerRaises(SelectedFeature(session))
                    THEN /\ pc' = "aborted"
                         /\ session' = drawn
                    ELSE /\ pc' = "click"
                         /\ \E kept \in BOOLEAN :
                               /\ kept \/ session.run.trigger # "click"
                               /\ session' = [ drawn EXCEPT
                                     !.rendered = @ \cup { "map" },
                                     !.last_clicked = IF kept THEN @ ELSE NoClick ]
           ELSE /\ pc' = "click"
                /\ \E kept \in BOOLEAN :
                      /\ kept \/ session.run.trigger # "click"
                      /\ session' = [ sidebar EXCEPT
                            !.rendered = @ \cup { "map" },
                            !.last_clicked = IF kept THEN @ ELSE NoClick ]
    /\ UNCHANGED <<source, buildings_data, total_buildings, call, result>>
    /\ UNCHANGED <<bearing, threads, retry>>

\* OnNotFound with the selection dropped when nothing is found
OnNotFound_DropsSelection(s) == [ s EXCEPT !.selected_building = NoBuilding ]

\* app.py:211-213: a warning and a hint, st.session_state is not touched
OnNotFound(s) == s

\* app.py:160-248: the information column
AppClick ==
    /\ pc = "click"
    /\ IF session.last_clicked.set
       THEN LET found == find_building_by_coordinates(session.last_clicked.lat,
                             session.last_clicked.lng, buildings_data,
                             session.max_search_distance)
                called == [ session EXCEPT
                              !.run.calls = @ \cup { "find_building_by_coordinates" } ]
            IN  /\ call' = Call("find", session.last_clicked.lat, session.last_clicked.lng,
                                session.max_search_distance, 0)
                /\ result' = found
                /\ CASE found.kind = "raise" ->
                          /\ pc' = "aborted"
                          /\ session' = called
                     [] found.kind = "none" ->
                          /\ pc' = "insights"
                          /\ session' = OnNotFound([ called EXCEPT !.run.found = "notfound" ])
                     [] OTHER ->
                          LET stored == [ called EXCEPT !.run.found = "found",
                                                        !.selected_building = found.index ]
                          IN  IF DisplayRaises(buildings_data.features[found.index])
                              THEN /\ pc' = "aborted"
                                   /\ session' = stored
                              ELSE IF session.pressed = "insights_btn_1"
                              THEN /\ pc' = "load"
                                   /\ session' = StartRun([ stored EXCEPT
                                                   !.generate_insights = TRUE ],
                                                   "rerun", "none")
                              ELSE /\ pc' = "insights"
                                   /\ session' = [ stored EXCEPT
                                                   !.rendered = @ \cup { "insights_btn_1" } ]
       ELSE /\ UNCHANGED <<call, result>>
            /\ IF session.selected_building # NoBuilding
               THEN IF DisplayRaises(SelectedFeature(session))
                    THEN /\ pc' = "aborted"
                         /\ UNCHANGED session
                    ELSE IF session.pressed = "insights_btn_2"
                    THEN /\ pc' = "load"
                         /\ session' = StartRun([ session EXCEPT
                                         !.generate_insights = TRUE ], "rerun", "none")
                    ELSE /\ pc' = "insights"
                         /\ session' = [ session EXCEPT
                                         !.rendered = @ \cup { "insights_btn_2" } ]
               ELSE /\ pc' = "insights"
                    /\ UNCHANGED session
    /\ UNCHANGED <<source, buildings_data, total_buildings, bearing, threads, retry>>

\* AnalyzeAnother with the flag left as it is
AnalyzeAnother_KeepsFlag(s) == [ s EXCEPT !.selected_building = NoBuilding ]

\* app.py:396-397
AnalyzeAnother(s) ==
    [ s EXCEPT !.generate_insights = FALSE, !.selected_building = NoBuilding ]

\* app.py:403
ClearAnalysis(s) == [ s EXCEPT !.generate_insights = FALSE ]

\* app.py:253-410: the insights section; the Street View part of l.275-322
\* runs when the checkbox is ticked and an angle is chosen
AppInsights ==
    /\ pc = "insights"
    /\ IF session.generate_insights /\ session.selected_building # NoBuilding
       THEN \E street_view \in BOOLEAN :
               LET imagery == IF street_view
                              THEN { "get_building_center", "fetch_street_view_image" }
                              ELSE {}
                   analysed == [ session EXCEPT
                                   !.run.calls = @ \cup imagery
                                                   \cup { "generate_building_insights" },
                                   !.run.insights_for = session.selected_building ]
               IN  CASE session.pressed = "analyze_another" ->
                          /\ pc' = "load"
                          /\ session' = StartRun(AnalyzeAnother(analysed), "rerun", "none")
                     [] session.pressed = "clear_analysis" ->
                          /\ pc' = "load"
                          /\ session' = StartRun(ClearAnalysis(analysed), "rerun", "none")
                     [] OTHER ->
                          /\ pc' = "idle"
                          /\ session' = [ analysed EXCEPT
                                !.rendered = @ \cup { "analyze_another", "clear_analysis" } ]
       ELSE /\ pc' = "idle"
            /\ UNCHANGED session
    /\ UNCHANGED <<source, buildings_data, total_buildings, call, result>>
    /\ UNCHANGED <<bearing, threads, retry>>

RunOver == pc \in { "idle", "aborted" }

\* the user clicks on the map
MapClick ==
    /\ RunOver
    /\ "map" \in session.rendered
    /\ \E click \in AppClicks :
          session' = StartRun([ session EXCEPT !.last_clicked = click ], "click", "none")
    /\ pc' = "load"
    /\ UNCHANGED <<source, buildings_data, total_buildings, call, result>>
    /\ UNCHANGED <<bearing, threads, retry>>

\* the user moves the slider of the sidebar
MoveSlider ==
    /\ RunOver
    /\ "slider" \in session.rendered
    /\ \E d \in SliderValues \ { session.max_search_distance } :
          session' = StartRun([ session EXCEPT !.max_search_distance = d ], "slider", "none")
    /\ pc' = "load"
    /\ UNCHANGED <<source, buildings_data, total_buildings, call, result>>
    /\ UNCHANGED <<bearing, threads, retry>>

Buttons == { "insights_btn_1", "insights_btn_2", "analyze_another", "clear_analysis" }

\* the user presses a button the last run has drawn
PressButton ==
    /\ RunOver
    /\ \E b \in Buttons \cap session.rendered :
          session' = StartRun(session, "button", b)
    /\ pc' = "load"
    /\ UNCHANGED <<source, buildings_data, total_buildings, call, result>>
    /\ UNCHANGED <<bearing, threads, retry>>

\* after st.stop() the page holds the error only; the user loads it again,
\* which starts a run with the session state as it is
Reload ==
    /\ pc = "stopped"
    /\ session' = StartRun(session, "reload", "none")
    /\ pc' = "load"
    /\ UNCHANGED <<source, buildings_data, total_buildings, call, result>>
    /\ UNCHANGED <<bearing, threads, retry>>

NextApp ==
    \/ AppLoad
    \/ AppMap
    \/ AppClick
    \/ AppInsights
    \/ MapClick
    \/ MoveSlider
    \/ PressButton
    \/ Reload

SpecApp == InitApp /\ [][NextApp]_vars

Queries ==
    { "find_building_by_coordinates", "get_building_center", "fetch_street_view_image",
      "generate_building_insights" }

(***************************************************************************)
(* C13: in every run of the script the resolution, derivation, imagery and *)
(* insight calls are made only after load_buildings has returned in that   *)
(* run and the load block has not failed; when the load block fails the    *)
(* error is shown and the run stops, with none of these calls made; the    *)
(* load is attempted once in a run.                                        *)
(***************************************************************************)
C13_LoadPrecedesQueries ==
    /\ session.run.calls \subseteq Queries
    /\ session.run.calls # {} => (session.run.loaded /\ ~session.run.error_shown)
    /\ session.run.load_calls <= 1
    /\ pc \notin { "load", "stopped" } => (session.run.loaded /\ session.run.load_calls = 1)
    /\ session.run.error_shown <=> pc = "stopped"
    /\ pc = "stopped" => session.run.calls = {}

\* a run that was started again after a failed load, and has failed again
C13_Witness ==
    /\ pc = "stopped"
    /\ session.run.trigger = "reload"
    /\ ~session.run.loaded
    /\ session.run.error_shown
    /\ session.run.load_calls = 1
    /\ session.run.calls = {}

(***************************************************************************)
(* C16: whenever the generate_insights flag is true a building is          *)
(* selected, and the insight engine is called only for a selected          *)
(* building.                                                               *)
(***************************************************************************)
C16_InsightsOnlyWithSelection ==
    /\ session.generate_insights => session.selected_building # NoBuilding
    /\ "generate_building_insights" \in session.run.calls =>
          /\ session.run.insights_for # NoBuilding
          /\ session.run.insights_for = session.selected_building

\* insights were generated for the building found at the click of this run
C16_Witness ==
    /\ pc = "idle"
    /\ session.generate_insights
    /\ session.run.found = "found"
    /\ "generate_building_insights" \in session.run.calls
    /\ session.run.insights_for = session.selected_building
    /\ session.selected_building # NoBuilding

\* what the click st_folium gives back resolves to, in the information column
ClickResolution ==
    find_building_by_coordinates(session.last_clicked.lat, session.last_clicked.lng,
                                 buildings_data, session.max_search_distance)

ClickStep == pc = "click" /\ session.last_clicked.set

(***************************************************************************)
(* C17: a step changes selected_building only if it is the resolution of a *)
(* click to a building, which becomes the selection, or 'Analyze Another   *)
(* Building', which sets it to None; a click that resolves to nothing and  *)
(* 'Clear Analysis' leave it as it is; in a run whose click resolved to    *)
(* nothing the marker was drawn for the building still selected, and the   *)
(* insights, if generate_insights is true, are generated for it.           *)
(***************************************************************************)
C17_SelectionFrame ==
    [][ /\ session'.selected_building # session.selected_building =>
              \/ /\ ClickStep
                 /\ ClickResolution.kind = "found"
                 /\ session'.selected_building = ClickResolution.index
              \/ /\ pc = "insights"
                 /\ session.pressed = "analyze_another"
                 /\ session'.selected_building = NoBuilding
        /\ (ClickStep /\ ClickResolution.kind = "none") =>
              /\ session'.selected_building = session.selected_building
              /\ session'.run.marker_for = session'.selected_building
              /\ pc' = "insights"
        /\ (pc = "insights" /\ session.pressed = "clear_analysis") =>
              session'.selected_building = session.selected_building
        /\ (/\ pc = "insights"
            /\ session.run.found = "notfound"
            /\ session.generate_insights
            /\ session.selected_building # NoBuilding) =>
              /\ session.run.marker_for = session.selected_building
              /\ session.run.insights_for = NoBuilding
              /\ \/ session'.run.insights_for = session.selected_building
                 \/ session.pressed \in { "analyze_another", "clear_analysis" }
      ]_vars

\* a run whose click resolved to nothing, with the building selected before
\* still marked and analysed
C17_Witness ==
    /\ pc = "idle"
    /\ session.run.found = "notfound"
    /\ session.generate_insights
    /\ session.selected_building # NoBuilding
    /\ session.run.marker_for = session.selected_building
    /\ session.run.insights_for = session.selected_building

====
